---- MODULE Spec2Model ----
(***************************************************************************)
(* A model of the three tender scrapers scrape_nsw.py, scrape_qld.py and   *)
(* scrape_vic.py.  Each script is one run(): locate a listing endpoint     *)
(* (QLD, VIC), fetch the listing pages, dedupe the links, peek at a sample *)
(* of detail pages, score, classify, sort and write the JSON artifacts.    *)
(*                                                                         *)
(* Text is a sequence of words (a word stands for one \b...\b token of the *)
(* regular expressions); a URL is a record of host, path segments, query   *)
(* pairs and fragment; a listing page is the sequence of its link-like     *)
(* elements in document order.                                             *)
(***************************************************************************)
EXTENDS Integers, Sequences, FiniteSets, TLC

\* ------------------------------------------------------------------ bounds
MaxWords == 2        \* words per title / body drawn in SpecClassify
MaxLinks == 2        \* link-like elements on one listing page
MaxPages == 2        \* largest value of the PAGES knob
MaxDetailLimit == 2  \* largest value of the DETAIL_LIMIT knob
MaxPageNum == 5      \* largest page number drawn in SpecPaginate

\* ------------------------------------------------------- program constants
Attempts == 2        \* for i in range(2) of fetch
W_DRONE_TITLE == 3
W_DRONE_BODY == 2
W_ENERGY_TITLE == 2
W_ENERGY_BODY == 1

Sites == {"NSW", "QLD", "VIC"}

\* ------------------------------------------------------------------- text
\* The words texts are made of.  "drone" is a PRIMARY_DRONE_PATTERNS word,
\* "aerial" followed by "survey" is the two-word primary phrase
\* \baerial\s+(?:survey|...)\b, "survey" alone is a GENERIC_WORK_PATTERNS
\* word, "solar" an ENERGY_PATTERNS word, "strategy" a NEGATIVE_PATTERNS
\* word and "details" matches none (it is a label the title fallback skips).
Vocabulary == {"drone", "aerial", "survey", "solar", "strategy", "details"}

\* str.lower() on one word (every regex is compiled with re.I, and the sort
\* key and the generic-label test lower-case the title).
Lower(w) ==
    CASE w = "Solar" -> "solar"
      [] w = "Drone" -> "drone"
      [] w = "Untitled" -> "untitled"
      [] w = "prcOpportunity" -> "prcopportunity"
      [] OTHER -> w

LowerText(t) == [i \in 1..Len(t) |-> Lower(t[i])]

\* Texts of at most n words over the vocabulary.
TextsUpTo(n) == UNION {[1..k -> Vocabulary] : k \in 0..n}

\* Length of the match of regex re that starts at word i of text t, 0 if none.
MatchLen(re, t, i) ==
    LET w == Lower(t[i])
    IN CASE re = "DRONE_RE" ->
              IF w = "drone" THEN 1
              ELSE IF w = "aerial" /\ i + 1 <= Len(t) /\ Lower(t[i + 1]) = "survey"
                   THEN 2 ELSE 0
         [] re = "ENERGY_RE" -> IF w = "solar" THEN 1 ELSE 0
         [] re = "GENERIC_RE" -> IF w = "survey" THEN 1 ELSE 0
         [] re = "NEGATIVE_RE" -> IF w = "strategy" THEN 1 ELSE 0
         [] OTHER -> 0

\* regex.findall: the non-overlapping matches, scanning left to right.
RECURSIVE FindAllFrom(_, _, _)
FindAllFrom(re, t, i) ==
    IF i > Len(t) THEN 0
    ELSE LET m == MatchLen(re, t, i)
         IN IF m = 0 THEN FindAllFrom(re, t, i + 1)
            ELSE 1 + FindAllFrom(re, t, i + m)

count_hits(re, t) == FindAllFrom(re, t, 1)

\* regex.search(text) is not None
Search(re, t) == \E i \in 1..Len(t) : MatchLen(re, t, i) > 0

\* f"{title_text} {body_text}"
text_combo(title, body) == title \o body

\* A variant that weights a title hit like a body hit.
score_from_flat(title, body) ==
    LET t_drone == count_hits("DRONE_RE", title)
        b_drone == count_hits("DRONE_RE", body)
        t_energy == count_hits("ENERGY_RE", title)
        b_energy == count_hits("ENERGY_RE", body)
    IN [score |-> (W_DRONE_BODY * t_drone + W_DRONE_BODY * b_drone)
                  + (W_ENERGY_BODY * t_energy + W_ENERGY_BODY * b_energy),
        hits |-> [drone_title |-> t_drone, drone_body |-> b_drone,
                  energy_title |-> t_energy, energy_body |-> b_energy]]

score_from(title, body) ==
    LET t_drone == count_hits("DRONE_RE", title)
        b_drone == count_hits("DRONE_RE", body)
        t_energy == count_hits("ENERGY_RE", title)
        b_energy == count_hits("ENERGY_RE", body)
    IN [score |-> (W_DRONE_TITLE * t_drone + W_DRONE_BODY * b_drone)
                  + (W_ENERGY_TITLE * t_energy + W_ENERGY_BODY * b_energy),
        hits |-> [drone_title |-> t_drone, drone_body |-> b_drone,
                  energy_title |-> t_energy, energy_body |-> b_energy]]

\* ------------------------------------------------------------------- URLs
\* A URL or href: host ("" for a relative reference), the path's segments
\* ("/a/b" is <<"a","b">>, "/a/" is <<"a","">>, "/" is <<"">>, "" is <<>>),
\* the query's key=value pairs in order, and the fragment ("" for none).
Url(host, path, query, frag) ==
    [host |-> host, path |-> path, query |-> query, frag |-> frag]

EmptyHref == Url("", <<>>, <<>>, "")

NSW_BASE == "buy.nsw.gov.au"
QLD_BASE == "qtenders.epw.qld.gov.au"
VIC_BASES == <<"www.tenders.vic.gov.au", "vic.consolidatedtenders.com">>

BASE(site) ==
    CASE site = "NSW" -> NSW_BASE
      [] site = "QLD" -> QLD_BASE
      [] OTHER -> VIC_BASES[1]

\* urllib.parse.urljoin(base, href) for a base that is scheme://host and an
\* href that is absolute or root-relative: it keeps query and fragment.
urljoin(base, href) ==
    IF href.host # "" THEN href ELSE [href EXCEPT !.host = base]

\* normalize_url of scrape_qld.py / scrape_vic.py: absolute, fragment stripped.
normalize_url(base, href) ==
    IF href = EmptyHref THEN EmptyHref
    ELSE LET h == IF href.host = "" THEN urljoin(base, href) ELSE href
         IN [h EXCEPT !.frag = ""]

\* The canonical URL of the specification: resolved against the site's base,
\* fragment stripped.
Canonical(site, u) == [urljoin(BASE(site), u) EXCEPT !.frag = ""]

\* "/seg/" in <path>: seg is a segment with a "/" after it.
HasDir(path, seg) == \E i \in 1..(Len(path) - 1) : path[i] = seg

LowerPath(path) == [i \in 1..Len(path) |-> Lower(path[i])]

\* Segments that contain the substring "detail".
SegsWithDetail == {"tender-details.do", "details", "detail"}
\* Segments that start with one of DETAIL_PATTERNS' last parts
\* ("/tender/view", "/tender/details", "/tender/display", "/tender/detail").
SegsOfDetailPatterns == {"view", "details", "display", "detail"}
\* Hosts that contain "tenders.vic.gov.au" or "consolidatedtenders.com".
VicHosts == {"www.tenders.vic.gov.au", "vic.consolidatedtenders.com"}

\* scrape_nsw.py parse_listing's test on the raw href h.
IsNswDetailHref(h) ==
    /\ HasDir(h.path, "prcOpportunity")
    /\ ~(/\ Len(h.path) >= 3
         /\ SubSeq(h.path, Len(h.path) - 2, Len(h.path)) = <<"opportunity", "search", "">>
         /\ h.query = <<>> /\ h.frag = "")

\* scrape_qld.py parse_listing_for_detail_links' test on h_low: "/qtenders/"
\* and "tender" (which "/qtenders/" contains) and "detail".
IsQldDetailHref(h) ==
    LET low == LowerPath(h.path)
    IN /\ HasDir(low, "qtenders")
       /\ \E i \in 1..Len(low) : low[i] \in SegsWithDetail

\* scrape_vic.py is_detail_link
is_detail_link(u) ==
    LET low == LowerPath(u.path)
    IN /\ u # EmptyHref
       /\ u.host \in VicHosts
       /\ HasDir(low, "tender")
       /\ \/ \E k \in 1..Len(u.query) : Lower(u.query[k][1]) = "id"
          \/ \E i \in 1..(Len(low) - 1) :
                low[i] = "tender" /\ low[i + 1] \in SegsOfDetailPatterns

\* ------------------------------------------------------------------ markup
\* One link-like element of a page: an anchor with href, an element with a
\* data-href attribute, or an element with an onclick handler that assigns
\* location; text is its visible text.
Elem(kind, href, text) == [kind |-> kind, href |-> href, text |-> text]

\* A response body.  A listing page is its link-like elements in document
\* order; a detail page is the text of its h1, of its <title> and of its
\* <main>.  EmptyHtml is the empty string.
Html(elems, h1, title, main) ==
    [elems |-> elems, h1 |-> h1, title |-> title, main |-> main]

EmptyHtml == Html(<<>>, <<>>, <<>>, <<>>)

\* The link-like elements a site's listing pages are made of.
NswElems ==
    { Elem("a", Url("", <<"prcOpportunity", "t1">>, <<>>, ""), <<"drone", "survey">>),
      Elem("a", Url("", <<"prcOpportunity", "t1">>, <<>>, "f1"), <<"Solar", "survey">>),
      Elem("a", Url(NSW_BASE, <<"prcOpportunity", "t1">>, <<>>, ""), <<"details">>),
      Elem("a", Url("", <<"opportunity", "search", "">>, <<>>, ""), <<"strategy">>) }

QldDetailPath == <<"qtenders", "tender", "display", "tender-details.do">>

QldElems ==
    { Elem("a", Url("", QldDetailPath, <<<<"id", "1">>>>, ""), <<"drone", "survey">>),
      Elem("a", Url(QLD_BASE, QldDetailPath, <<<<"id", "1">>>>, "f1"), <<"details">>),
      Elem("a", Url("", QldDetailPath, <<<<"id", "2">>>>, ""), <<"Solar", "survey">>),
      Elem("a", Url("", <<"qtenders", "tender", "search", "tender-search.do">>, <<>>, ""),
           <<"strategy">>) }

VicElems ==
    { Elem("a", Url("", <<"tender", "view">>, <<<<"id", "1">>>>, ""), <<"drone", "survey">>),
      Elem("data-href", Url(VIC_BASES[1], <<"tender", "view">>, <<<<"id", "1">>>>, "f1"),
           <<"Solar", "survey">>),
      Elem("onclick", Url("", <<"tender", "display", "t2">>, <<>>, ""), <<"details">>),
      Elem("a", Url("", <<"tender", "search">>, <<>>, ""), <<"strategy">>) }

SiteElems(site) ==
    CASE site = "NSW" -> NswElems
      [] site = "QLD" -> QldElems
      [] OTHER -> VicElems

SeqsUpTo(S, n) == UNION {[1..k -> S] : k \in 0..n}

ListingPages(site) ==
    {Html(es, <<>>, <<>>, <<>>) : es \in SeqsUpTo(SiteElems(site), MaxLinks)}

DetailPages ==
    { Html(<<>>, <<"drone", "survey">>, <<>>, <<"solar">>),
      Html(<<>>, <<>>, <<"strategy">>, <<"solar", "survey">>) }

\* ------------------------------------------------------------------ fetch
\* What one session.get answers: a response with r.ok ("ok"), a response
\* with an HTTP error status ("http_error"), or a requests.RequestException
\* ("exception": TLS failure, refused connection, timeout).
Responses(bodies) ==
    {[kind |-> "ok", text |-> b] : b \in bodies}
    \cup {[kind |-> k, text |-> EmptyHtml] : k \in {"http_error", "exception"}}

\* The loop of fetch from its i-th pass on (i = 1 is Python's i == 0): rs[i]
\* is what the i-th session.get answers, log the attempts made so far.  The
\* result is the text returned, the attempts made (verify flag and outcome)
\* and whether an exception left fetch: "except requests.RequestException:
\* pass" lets none out.
RECURSIVE FetchFrom(_, _, _)
FetchFrom(rs, i, log) ==
    IF i > Attempts THEN [text |-> EmptyHtml, attempts |-> log, raised |-> FALSE]
    ELSE LET a == [verify |-> (i = 1), outcome |-> rs[i].kind]
         IN IF rs[i].kind = "ok"
            THEN [text |-> rs[i].text, attempts |-> Append(log, a), raised |-> FALSE]
            ELSE FetchFrom(rs, i + 1, Append(log, a))

\* A variant that gives up on an HTTP error status instead of trying again.
fetch_exceptions_only(rs) ==
    IF rs[1].kind = "http_error"
    THEN [text |-> EmptyHtml,
          attempts |-> <<[verify |-> TRUE, outcome |-> "http_error"]>>,
          raised |-> FALSE]
    ELSE FetchFrom(rs, 1, <<>>)

\* A variant without the try/except: the first exception leaves fetch.
fetch_uncaught(rs) ==
    IF rs[1].kind = "exception"
    THEN [text |-> EmptyHtml,
          attempts |-> <<[verify |-> TRUE, outcome |-> "exception"]>>,
          raised |-> TRUE]
    ELSE FetchFrom(rs, 1, <<>>)

fetch(rs) == FetchFrom(rs, 1, <<>>)

\* Every body a fetch can return when the server's pages are `bodies`.
FetchResults(bodies) ==
    {fetch(rs) : rs \in [1..Attempts -> Responses(bodies)]}

\* ---------------------------------------------------------------- parsing
Map(f(_), s) == [i \in 1..Len(s) |-> f(s[i])]

\* The "if h not in seen: seen.add(h); out.append(...)" loop: the first item
\* of every href, in order.
RECURSIVE FirstSeenFrom(_, _, _, _)
FirstSeenFrom(items, i, seen, out) ==
    IF i > Len(items) THEN out
    ELSE IF items[i].href \in seen
         THEN FirstSeenFrom(items, i + 1, seen, out)
         ELSE FirstSeenFrom(items, i + 1, seen \cup {items[i].href},
                            Append(out, items[i]))

FirstSeen(items) == FirstSeenFrom(items, 1, {}, <<>>)

IsAnchor(e) == e.kind = "a"

\* scrape_nsw.py
parse_listing(html) ==
    IF html = EmptyHtml THEN <<>>
    ELSE LET item(e) == [href |-> e.href, text |-> e.text]
             wanted(it) == IsNswDetailHref(it.href)
         IN FirstSeen(SelectSeq(Map(item, SelectSeq(html.elems, IsAnchor)), wanted))

\* scrape_qld.py
parse_listing_for_detail_links(html) ==
    IF html = EmptyHtml THEN <<>>
    ELSE LET item(e) == [href |-> normalize_url(QLD_BASE, e.href), text |-> e.text]
             wanted(it) == IsQldDetailHref(it.href)
         IN FirstSeen(SelectSeq(Map(item, SelectSeq(html.elems, IsAnchor)), wanted))

\* scrape_vic.py: anchors, then data-href elements, then onclick handlers.
collect_link_candidates(html, base) ==
    IF html = EmptyHtml THEN <<>>
    ELSE LET item(e) == [href |-> normalize_url(base, e.href), text |-> e.text,
                         src |-> IF e.kind = "a" THEN "a[href]" ELSE e.kind]
             IsData(e) == e.kind = "data-href"
             IsOnclick(e) == e.kind = "onclick"
             HasHref(it) == it.href # EmptyHref
         IN Map(item, SelectSeq(html.elems, IsAnchor))
            \o SelectSeq(Map(item, SelectSeq(html.elems, IsData)), HasHref)
            \o Map(item, SelectSeq(html.elems, IsOnclick))

\* [c for c in candidates if is_detail_link(c["href"])]
DetailLinks(cands) ==
    LET wanted(c) == is_detail_link(c.href)
    IN SelectSeq(cands, wanted)

\* What a site extracts from a listing page fetched from a URL of host `base`.
ExtractItems(site, html, base) ==
    CASE site = "NSW" -> parse_listing(html)
      [] site = "QLD" -> parse_listing_for_detail_links(html)
      [] OTHER -> DetailLinks(collect_link_candidates(html, base))

parse_detail_title_and_body(html) ==
    IF html = EmptyHtml THEN [title |-> <<>>, body |-> <<>>]
    ELSE [title |-> IF html.h1 # <<>> THEN html.h1 ELSE html.title,
          body |-> html.main]

\* The link texts link_title_from_href does not take for a title.
GenericLabels(site) ==
    CASE site = "NSW" -> {<<"see", "details">>, <<"details">>, <<"open", "opportunities">>}
      [] site = "QLD" -> {<<"details">>, <<"view", "tender">>, <<"view", "details">>}
      [] OTHER -> {<<"details">>, <<"view", "tender">>, <<"view", "details">>,
                   <<"see", "details">>}

\* path.rstrip("/")
RECURSIVE RStripSlash(_)
RStripSlash(path) ==
    IF path # <<>> /\ path[Len(path)] = ""
    THEN RStripSlash(SubSeq(path, 1, Len(path) - 1))
    ELSE path

link_title_from_href(site, href, text_hint) ==
    IF text_hint # <<>> /\ LowerText(text_hint) \notin GenericLabels(site)
    THEN text_hint
    ELSE LET p == RStripSlash(href.path)
             last == IF p = <<>> THEN "" ELSE p[Len(p)]
         IN IF last = "" THEN <<"Untitled">> ELSE <<last>>

\* dedupe of run: "if href not in seen: seen.add(href); uniq.append(it)"
dedupe_keep_all(all_items) == all_items

dedupe(all_items) == FirstSeen(all_items)

\* uniq[:DETAIL_LIMIT], a Python slice: a negative limit counts from the end.
slice_upto(seq, n) ==
    IF n >= 0
    THEN SubSeq(seq, 1, IF n < Len(seq) THEN n ELSE Len(seq))
    ELSE SubSeq(seq, 1, IF Len(seq) + n > 0 THEN Len(seq) + n ELSE 0)

\* ---------------------------------------------------- scoring and rows
\* A variant in which a negative pattern vetoes inclusion.
include_strict_negative_veto(drone_hits_total, negative_hit) ==
    (drone_hits_total > 0) /\ ~negative_hit

\* include = (drone_hits_total > 0) and (True if drone_hits_total > 0 else not negative_hit)
include_strict(drone_hits_total, negative_hit) ==
    (drone_hits_total > 0)
    /\ (IF drone_hits_total > 0 THEN TRUE ELSE ~negative_hit)

\* A variant that forgets the negative pattern.
include_near_ignoring_negative(drone_hits_total, energy_hits_total, generic_hits, negative_hit) ==
    (drone_hits_total = 0) /\ (energy_hits_total > 0) /\ (generic_hits > 0)

\* scrape_vic.py include_near
include_near(drone_hits_total, energy_hits_total, generic_hits, negative_hit) ==
    (drone_hits_total = 0) /\ (energy_hits_total > 0) /\ (generic_hits > 0)
    /\ ~negative_hit

\* The title and body an item is scored from: the detail text when the item
\* was sampled (and its title is not empty), else the link label.
TitleOf(site, it, details_text) ==
    LET title == IF it.href \in DOMAIN details_text
                 THEN details_text[it.href].title ELSE <<>>
    IN IF title # <<>> THEN title
       ELSE link_title_from_href(site, it.href, it.text)

BodyOf(it, details_text) ==
    IF it.href \in DOMAIN details_text THEN details_text[it.href].body ELSE <<>>

\* One pass of the "build rows" loop of run: the row of rows_all, and for
\* VIC whether the item also goes to rows_near and with how many generic hits.
build_row(site, it, details_text) ==
    LET title_text == TitleOf(site, it, details_text)
        body_text == BodyOf(it, details_text)
        combo == text_combo(title_text, body_text)
        sc == score_from(title_text, body_text)
        drone_hits_total == sc.hits.drone_title + sc.hits.drone_body
        energy_hits_total == sc.hits.energy_title + sc.hits.energy_body
        negative_hit == Search("NEGATIVE_RE", combo)
        generic_hits == count_hits("GENERIC_RE", combo)
    IN [row |-> [title |-> title_text,
                 source_url |-> IF site = "NSW" THEN urljoin(NSW_BASE, it.href)
                                ELSE it.href,
                 state |-> site,
                 score |-> sc.score,
                 hits |-> sc.hits,
                 include |-> include_strict(drone_hits_total, negative_hit)],
        near |-> site = "VIC"
                 /\ include_near(drone_hits_total, energy_hits_total,
                                 generic_hits, negative_hit),
        generic |-> generic_hits]

\* The lower-cased words in alphabetical order: the order of str on them.
WordOrder ==
    << "aerial", "details", "display", "drone", "prcopportunity", "search",
       "solar", "strategy", "survey", "t1", "t2", "tender-details.do",
       "tender-search.do", "untitled", "view" >>

Rank(w) == CHOOSE i \in 1..Len(WordOrder) : WordOrder[i] = w

\* a < b for two lower-cased titles, as Python orders str.
StrLess(a, b) ==
    \E k \in 1..Len(b) :
        /\ k <= Len(a) + 1
        /\ \A j \in 1..(k - 1) : a[j] = b[j]
        /\ (k = Len(a) + 1 \/ Rank(a[k]) < Rank(b[k]))

\* A variant whose key is the title as written: Python orders an
\* upper-case letter before every lower-case one.
KeyLessCaseSensitive(r1, r2) ==
    LET cased(w) == IF Lower(w) # w THEN 0 ELSE Rank(w)
        a == r1.title
        b == r2.title
    IN \/ r1.score > r2.score
       \/ /\ r1.score = r2.score
          /\ \E n \in 1..Len(b) :
                /\ n <= Len(a) + 1
                /\ \A j \in 1..(n - 1) : a[j] = b[j]
                /\ (n = Len(a) + 1 \/ cased(a[n]) < cased(b[n]))

\* key=lambda r: (-r["score"], r["title"].lower())
KeyLess(r1, r2) ==
    \/ r1.score > r2.score
    \/ /\ r1.score = r2.score
       /\ StrLess(LowerText(r1.title), LowerText(r2.title))

\* list.sort is stable: r goes before the first row whose key is greater.
InsertRow(sorted, r) ==
    LET after == {i \in 1..Len(sorted) : KeyLess(r, sorted[i])}
        k == IF after = {} THEN Len(sorted) + 1
             ELSE CHOOSE i \in after : \A j \in after : i <= j
    IN SubSeq(sorted, 1, k - 1) \o <<r>> \o SubSeq(sorted, k, Len(sorted))

RECURSIVE SortFrom(_, _, _)
SortFrom(rows, i, acc) ==
    IF i > Len(rows) THEN acc
    ELSE SortFrom(rows, i + 1, InsertRow(acc, rows[i]))

sort_rows(rows) == SortFrom(rows, 1, <<>>)

\* rows_out = [r for r in rows_all if r["include"]] if ONLY_FILTERED else rows_all
filter_rows(rows_all, only_filtered) ==
    LET included(r) == r.include
    IN IF only_filtered THEN SelectSeq(rows_all, included) ELSE rows_all

\* -------------------------------------------------------------- endpoints
NSW_LIST_URL ==
    Url(NSW_BASE, <<"opportunity", "search">>, <<<<"types", "Tenders">>>>, "")

QldSearchPath == <<"qtenders", "tender", "search", "tender-search.do">>

QLD_LIST_URL_CANDIDATES ==
    << Url(QLD_BASE, QldSearchPath, <<<<"openTenders", "true">>>>, ""),
       Url(QLD_BASE, QldSearchPath, <<<<"type", "OPEN">>>>, ""),
       Url(QLD_BASE, <<"qtenders", "">>, <<>>, "") >>

VIC_LIST_URL_CANDIDATES ==
    << Url("", <<"tender", "search">>, <<<<"preset", "open">>>>, ""),
       Url("", <<"tender", "search">>,
           << <<"tenderState", "OPEN">>, <<"groupBy", "NONE">>,
              <<"openThisWeek", "false">>, <<"closeThisWeek", "false">>,
              <<"awardedThisWeek", "false">> >>, ""),
       Url("", <<"tender", "search">>, <<>>, ""),
       Url("", <<"">>, <<>>, "") >>

\* The listing URLs the locator probes, in the order of its loops: for QLD
\* LIST_URL_CANDIDATES, for VIC every path of every base, base by base.
Candidates(site) ==
    IF site = "QLD" THEN QLD_LIST_URL_CANDIDATES
    ELSE [k \in 1..(Len(VIC_BASES) * Len(VIC_LIST_URL_CANDIDATES)) |->
            normalize_url(VIC_BASES[((k - 1) \div Len(VIC_LIST_URL_CANDIDATES)) + 1],
                          VIC_LIST_URL_CANDIDATES[((k - 1) % Len(VIC_LIST_URL_CANDIDATES)) + 1])]

\* urllib.parse.parse_qs: the keys in order of first appearance, each with
\* the list of its values; a pair with a blank value is dropped.
NonBlank(q) == LET keep(p) == p[2] # "" IN SelectSeq(q, keep)

RECURSIVE QsKeysFrom(_, _, _)
QsKeysFrom(q, i, keys) ==
    IF i > Len(q) THEN keys
    ELSE IF \E j \in 1..Len(keys) : keys[j] = q[i][1]
         THEN QsKeysFrom(q, i + 1, keys)
         ELSE QsKeysFrom(q, i + 1, Append(keys, q[i][1]))

parse_qs(query) ==
    LET q == NonBlank(query)
        keys == QsKeysFrom(q, 1, <<>>)
        vals(k) == LET mine(p) == p[1] = k
                       second(p) == p[2]
                   IN Map(second, SelectSeq(q, mine))
    IN [j \in 1..Len(keys) |-> <<keys[j], vals(keys[j])>>]

\* A variant that adds the key at the end without looking for it.
QsSetAppend(qs, name, value) == Append(qs, <<name, <<value>>>>)

\* qs[name] = [value]: overwrites the key in place, or adds it at the end.
QsSet(qs, name, value) ==
    IF \E j \in 1..Len(qs) : qs[j][1] = name
    THEN [j \in 1..Len(qs) |-> IF qs[j][1] = name THEN <<name, <<value>>>> ELSE qs[j]]
    ELSE Append(qs, <<name, <<value>>>>)

\* urlencode(qs, doseq=True)
RECURSIVE urlencode(_)
urlencode(qs) ==
    IF qs = <<>> THEN <<>>
    ELSE [v \in 1..Len(qs[1][2]) |-> <<qs[1][1], qs[1][2][v]>>] \o urlencode(Tail(qs))

PageParam(site) == IF site = "QLD" THEN "currentPage" ELSE "page"

\* add_pagination of scrape_qld.py ("currentPage") and scrape_vic.py ("page")
add_pagination(site, url, page_num) ==
    IF page_num <= 1 THEN url
    ELSE [url EXCEPT !.query =
            urlencode(QsSet(parse_qs(url.query), PageParam(site), ToString(page_num)))]

\* The URL of listing page i: NSW appends "&page=i" to LIST_URL.
PageUrl(site, chosen, i) ==
    IF site = "NSW"
    THEN IF i = 1 THEN NSW_LIST_URL
         ELSE [NSW_LIST_URL EXCEPT !.query = Append(@, <<"page", ToString(i)>>)]
    ELSE IF i = 1 THEN chosen ELSE add_pagination(site, chosen, i)

\* A variant of the listing loop that stops after its first page.
LastPageStopsEarly(pages) == 1

\* range(1, max(1, PAGES) + 1)
LastPage(pages) == IF pages > 1 THEN pages ELSE 1

\* ------------------------------------------------------------------ state
VARIABLES
    site,           \* which script runs
    PAGES, DETAIL_LIMIT, ONLY_FILTERED, WRITE_NEAR,   \* the knobs read from os.environ
    pc,             \* where run() is
    cand,           \* index of the candidate the locator probes next
    chosen_url,     \* chosen_url / chosen_abs (EmptyHref is None)
    first_links,    \* first_links of QLD, which page 1 of the listing loop reuses
                    \* (VIC's page1_links is read only by "if not page1_links"
                    \* and the debug dump: probe_log keeps its length)
    page_i,         \* the listing page fetched next
    all_items, uniq, details_text, detail_k,
    rows_all, rows_near, rows_out,
    files,          \* the artifacts written so far: name -> records
    stdout,         \* what run() printed
    fetched,        \* every fetch() call so far: its phase and URL
    probe_log,      \* the locator's logging.info lines: URL, detail links found
    usable,         \* some session.get of this run answered with r.ok
    fetch_rs,       \* SpecFetch: what the server answers to each attempt
    fetch_ret       \* SpecFetch: what fetch returned

vars == << site, PAGES, DETAIL_LIMIT, ONLY_FILTERED, WRITE_NEAR, pc, cand,
           chosen_url, first_links, page_i, all_items, uniq, details_text,
           detail_k, rows_all, rows_near, rows_out, files, stdout, fetched,
           probe_log, usable, fetch_rs, fetch_ret >>

knobs == << site, PAGES, DETAIL_LIMIT, ONLY_FILTERED, WRITE_NEAR >>
fetch_vars == << fetch_rs, fetch_ret >>

NoFiles == [n \in {} |-> <<>>]
NoDetails == [h \in {} |-> [title |-> <<>>, body |-> <<>>]]
NotReturned == [text |-> EmptyHtml, attempts |-> <<>>, raised |-> FALSE]
NoAnswers == [i \in 1..Attempts |-> [kind |-> "exception", text |-> EmptyHtml]]

\* Every result of a listing fetch and of a detail fetch.
ListingFetchResults == [s \in Sites |-> FetchResults(ListingPages(s))]
DetailFetchResults == FetchResults(DetailPages)

HasLocator(s) == s \in {"QLD", "VIC"}

\* run() has not started: nothing located, fetched or written.
Fresh ==
    /\ cand = 1
    /\ chosen_url = EmptyHref
    /\ first_links = <<>>
    /\ page_i = 1
    /\ all_items = <<>>
    /\ uniq = <<>>
    /\ details_text = NoDetails
    /\ detail_k = 0
    /\ rows_all = <<>>
    /\ rows_near = <<>>
    /\ rows_out = <<>>
    /\ files = NoFiles
    /\ stdout = <<>>
    /\ fetched = <<>>
    /\ probe_log = <<>>
    /\ usable = FALSE

\* The knobs are read when the module is loaded: int(os.getenv(...)) takes
\* any integer, PAGES and DETAIL_LIMIT included.
Init ==
    /\ site \in Sites
    /\ PAGES \in 0..MaxPages
    /\ DETAIL_LIMIT \in (-1)..MaxDetailLimit
    /\ ONLY_FILTERED \in BOOLEAN
    /\ WRITE_NEAR \in (IF site = "VIC" THEN BOOLEAN ELSE {FALSE})
    /\ pc = IF HasLocator(site) THEN "probe" ELSE "list"
    /\ Fresh
    /\ fetch_rs = NoAnswers
    /\ fetch_ret = NotReturned

\* Where run() goes after a fetch: an exception that left fetch would leave
\* run() too, which has no try around its fetches.
\* fetch returned the text of a response with r.ok.
ResponseOk(res) ==
    res.attempts # <<>> /\ res.attempts[Len(res.attempts)].outcome = "ok"

AfterFetch(res, next) == IF res.raised THEN "crashed" ELSE next

\* A locator that keeps probing after a candidate gave links.
ProbeNextNoBreak(links, k, n) ==
    IF k < n THEN "probe" ELSE IF links # <<>> THEN "list" ELSE "no_links"

\* The locator breaks out of its loops at the first candidate with links.
ProbeNext(links, k, n) ==
    IF links # <<>> THEN "list" ELSE IF k = n THEN "no_links" ELSE "probe"

\* One pass of the locator's loop: fetch a candidate, extract its detail links.
Probe ==
    /\ pc = "probe"
    /\ \E res \in ListingFetchResults[site] :
        LET url == Candidates(site)[cand]
            links == ExtractItems(site, res.text, url.host)
            next == ProbeNext(links, cand, Len(Candidates(site)))
        IN /\ fetched' = Append(fetched, [phase |-> "probe", url |-> url])
           /\ probe_log' = Append(probe_log, [url |-> url, n |-> Len(links)])
           /\ chosen_url' = IF links # <<>> THEN url ELSE chosen_url
           /\ first_links' = IF links # <<>> /\ site = "QLD" THEN links ELSE first_links
           /\ cand' = IF next = "probe" THEN cand + 1 ELSE cand
           /\ pc' = AfterFetch(res, next)
           /\ usable' = (usable \/ ResponseOk(res))
    /\ UNCHANGED << knobs, page_i, all_items, uniq, details_text, detail_k,
                    rows_all, rows_near, rows_out, files, stdout, fetch_vars >>

\* An early return that writes the raw artifact only.
EmptyOutputsRawOnly(s) == "raw" :> <<>>

\* The artifacts written when no candidate gave links.
EmptyOutputs(s) ==
    IF s = "VIC"
    THEN ("raw" :> <<>>) @@ ("links" :> <<>>) @@ ("near" :> <<>>)
    ELSE ("raw" :> <<>>) @@ ("links" :> <<>>)

\* "if not chosen_url" / "if not page1_links": write empty outputs and return.
NoLinks ==
    /\ pc = "no_links"
    /\ files' = EmptyOutputs(site)
    /\ stdout' = Append(stdout, "OK (no links)")
    /\ pc' = "done"
    /\ UNCHANGED << knobs, cand, chosen_url, first_links, page_i, all_items, uniq,
                    details_text, detail_k, rows_all, rows_near, rows_out,
                    fetched, probe_log, usable, fetch_vars >>

\* The detail pages run() peeks at.
Sample(u, limit) == slice_upto(u, limit)

\* One pass of the listing loop; after the last page, the dedupe loop.
ListPage ==
    /\ pc = "list"
    /\ \E res \in ListingFetchResults[site] :
        LET url_i == PageUrl(site, chosen_url, page_i)
            parsed == ExtractItems(site, res.text, url_i.host)
            reuse == site = "QLD" /\ page_i = 1 /\ first_links # <<>>
            items == IF reuse THEN first_links ELSE parsed
            last == page_i = LastPage(PAGES)
            u == dedupe(all_items \o items)
        IN /\ fetched' = Append(fetched, [phase |-> "list", url |-> url_i])
           /\ first_links' = IF reuse THEN <<>> ELSE first_links
           /\ all_items' = all_items \o items
           /\ page_i' = page_i + 1
           /\ uniq' = IF last THEN u ELSE uniq
           /\ pc' = AfterFetch(res,
                               IF ~last THEN "list"
                               ELSE IF Sample(u, DETAIL_LIMIT) = <<>> THEN "rows"
                               ELSE "detail")
           /\ usable' = (usable \/ ResponseOk(res))
    /\ UNCHANGED << knobs, cand, chosen_url, details_text, detail_k, rows_all,
                    rows_near, rows_out, files, stdout, probe_log, fetch_vars >>

\* One pass of the detail loop over uniq[:DETAIL_LIMIT].
DetailFetch ==
    /\ pc = "detail"
    /\ \E res \in DetailFetchResults :
        LET it == Sample(uniq, DETAIL_LIMIT)[detail_k + 1]
            url == IF site = "NSW" THEN urljoin(NSW_BASE, it.href) ELSE it.href
        IN /\ fetched' = Append(fetched, [phase |-> "detail", url |-> url])
           /\ details_text' = (it.href :> parse_detail_title_and_body(res.text))
                              @@ details_text
           /\ pc' = AfterFetch(res,
                               IF detail_k + 1 = Len(Sample(uniq, DETAIL_LIMIT))
                               THEN "rows" ELSE "detail")
           /\ usable' = (usable \/ ResponseOk(res))
    /\ detail_k' = detail_k + 1
    /\ UNCHANGED << knobs, cand, chosen_url, first_links, page_i, all_items, uniq,
                    rows_all, rows_near, rows_out, files, stdout, probe_log,
                    fetch_vars >>

near_row(b) ==
    [title |-> b.row.title, source_url |-> b.row.source_url, state |-> b.row.state,
     score |-> b.row.score, generic |-> b.generic, hits |-> b.row.hits]

\* The artifacts run() writes at its end.
Outputs(s, all, out, near, write_near) ==
    IF s = "VIC" /\ write_near
    THEN ("raw" :> all) @@ ("links" :> out) @@ ("near" :> near)
    ELSE ("raw" :> all) @@ ("links" :> out)

\* The passes of the "build rows" loop over uniq.
BuiltRows ==
    LET build(it) == build_row(site, it, details_text)
    IN Map(build, uniq)

\* rows_all and rows_near after their sort.
SortedAll ==
    LET row(b) == b.row
    IN sort_rows(Map(row, BuiltRows))

SortedNear ==
    LET isnear(b) == b.near
    IN sort_rows(Map(near_row, SelectSeq(BuiltRows, isnear)))

\* Build the rows, sort, filter and write.
BuildRows ==
    /\ pc = "rows"
    /\ rows_all' = SortedAll
    /\ rows_near' = SortedNear
    /\ rows_out' = filter_rows(SortedAll, ONLY_FILTERED)
    /\ files' = Outputs(site, SortedAll, filter_rows(SortedAll, ONLY_FILTERED),
                        SortedNear, WRITE_NEAR)
    /\ stdout' = Append(stdout, "OK")
    /\ pc' = "done"
    /\ UNCHANGED << knobs, cand, chosen_url, first_links, page_i, all_items, uniq,
                    details_text, detail_k, fetched, probe_log, usable,
                    fetch_vars >>

Next == Probe \/ NoLinks \/ ListPage \/ DetailFetch \/ BuildRows

Spec == Init /\ [][Next]_vars

\* ------------------------------------------- scoring on arbitrary texts
\* The item whose row SpecClassify builds: a site's link labelled
\* "Solar survey", as the site's listing parser extracts it.
SampleItem(s) ==
    LET labelled(e) == e.text = <<"Solar", "survey">>
        e == CHOOSE x \in SiteElems(s) : labelled(x)
        url == IF s = "NSW" THEN NSW_LIST_URL ELSE Candidates(s)[1]
    IN ExtractItems(s, Html(<<e>>, <<>>, <<>>, <<>>), url.host)[1]

\* run() just before it builds its rows, after one listing page with one
\* link whose detail page had any title and body of at most MaxWords words.
InitClassify ==
    /\ site \in Sites
    /\ PAGES = 1
    /\ DETAIL_LIMIT = 1
    /\ ONLY_FILTERED = TRUE
    /\ WRITE_NEAR = (site = "VIC")
    /\ pc = "rows"
    /\ cand = 1
    /\ chosen_url = IF HasLocator(site) THEN Candidates(site)[1] ELSE EmptyHref
    /\ first_links = <<>>
    /\ page_i = 2
    /\ all_items = <<SampleItem(site)>>
    /\ uniq = <<SampleItem(site)>>
    /\ \E title \in TextsUpTo(MaxWords), body \in TextsUpTo(MaxWords) :
          details_text = (SampleItem(site).href :> [title |-> title, body |-> body])
    /\ detail_k = 1
    /\ rows_all = <<>>
    /\ rows_near = <<>>
    /\ rows_out = <<>>
    /\ files = NoFiles
    /\ stdout = <<>>
    /\ fetched =
         (IF HasLocator(site)
          THEN <<[phase |-> "probe", url |-> Candidates(site)[1]]>> ELSE <<>>)
         \o << [phase |-> "list", url |-> PageUrl(site, Candidates(site)[1], 1)],
               [phase |-> "detail",
                url |-> IF site = "NSW" THEN urljoin(NSW_BASE, SampleItem(site).href)
                        ELSE SampleItem(site).href] >>
    /\ probe_log =
         IF HasLocator(site) THEN <<[url |-> Candidates(site)[1], n |-> 1]>> ELSE <<>>
    /\ usable = TRUE
    /\ fetch_rs = NoAnswers
    /\ fetch_ret = NotReturned

SpecClassify == InitClassify /\ [][BuildRows]_vars

\* ------------------------------------------------------- one call of fetch
\* A call of fetch whose server answers each attempt in any way.
InitFetch ==
    /\ site = "NSW"
    /\ PAGES = 1
    /\ DETAIL_LIMIT = 0
    /\ ONLY_FILTERED = TRUE
    /\ WRITE_NEAR = FALSE
    /\ pc = "fetch"
    /\ Fresh
    /\ fetch_rs \in [1..Attempts -> Responses(ListingPages("NSW") \cup DetailPages)]
    /\ fetch_ret = NotReturned

Fetch ==
    /\ pc = "fetch"
    /\ fetch_ret' = fetch(fetch_rs)
    /\ usable' = ResponseOk(fetch(fetch_rs))
    /\ pc' = "returned"
    /\ UNCHANGED << knobs, cand, chosen_url, first_links, page_i, all_items, uniq,
                    details_text, detail_k, rows_all, rows_near, rows_out, files,
                    stdout, fetched, probe_log, fetch_rs >>

SpecFetch == InitFetch /\ [][Fetch]_vars

\* ------------------------------------------------ ranking several rows
\* The titles and bodies of the detail pages of the rows to rank: titles
\* that tie on the score and differ by case or by length.
RankTitles ==
    { <<"Solar">>, <<"solar", "survey">>, <<"Solar", "survey">>, <<"drone">>,
      <<"Untitled">>, <<"strategy">> }
RankBodies == { <<>>, <<"solar">> }

\* The unique links of one listing page that shows every link of the site.
RankItems(s) ==
    LET page == CHOOSE es \in [1..Cardinality(SiteElems(s)) -> SiteElems(s)] :
                    \A i, j \in DOMAIN es : es[i] = es[j] => i = j
        url == IF s = "NSW" THEN NSW_LIST_URL ELSE Candidates(s)[1]
    IN dedupe(ExtractItems(s, Html(page, <<>>, <<>>, <<>>), url.host))

\* run() just before it builds its rows, after one listing page and a
\* detail page for each of its unique links.
InitRank ==
    /\ site \in Sites
    /\ PAGES = 1
    /\ DETAIL_LIMIT = Len(RankItems(site))
    /\ ONLY_FILTERED \in BOOLEAN
    /\ WRITE_NEAR = (site = "VIC")
    /\ pc = "rows"
    /\ cand = 1
    /\ chosen_url = IF HasLocator(site) THEN Candidates(site)[1] ELSE EmptyHref
    /\ first_links = <<>>
    /\ page_i = 2
    /\ all_items = RankItems(site)
    /\ uniq = RankItems(site)
    /\ details_text \in [{it.href : it \in {RankItems(site)[k] :
                                            k \in 1..Len(RankItems(site))}}
                         -> [title : RankTitles, body : RankBodies]]
    /\ detail_k = Len(RankItems(site))
    /\ rows_all = <<>>
    /\ rows_near = <<>>
    /\ rows_out = <<>>
    /\ files = NoFiles
    /\ stdout = <<>>
    /\ fetched =
         (IF HasLocator(site)
          THEN <<[phase |-> "probe", url |-> Candidates(site)[1]]>> ELSE <<>>)
         \o << [phase |-> "list", url |-> PageUrl(site, Candidates(site)[1], 1)] >>
         \o [k \in 1..Len(RankItems(site)) |->
               [phase |-> "detail",
                url |-> IF site = "NSW"
                        THEN urljoin(NSW_BASE, RankItems(site)[k].href)
                        ELSE RankItems(site)[k].href]]
    /\ probe_log =
         IF HasLocator(site)
         THEN <<[url |-> Candidates(site)[1], n |-> Len(RankItems(site))]>>
         ELSE <<>>
    /\ usable = TRUE
    /\ fetch_rs = NoAnswers
    /\ fetch_ret = NotReturned

SpecRank == InitRank /\ [][BuildRows]_vars

\* ------------------------------------------------ one listing page URL
\* The URL of listing page page_i of an endpoint the script can be using:
\* LIST_URL for NSW, any of the locator's candidates for QLD and VIC.
InitPaginate ==
    /\ site \in Sites
    /\ PAGES = MaxPageNum
    /\ DETAIL_LIMIT = 0
    /\ ONLY_FILTERED = TRUE
    /\ WRITE_NEAR = (site = "VIC")
    /\ pc = "paginate"
    /\ cand = 1
    /\ chosen_url \in IF HasLocator(site)
                      THEN {Candidates(site)[k] : k \in 1..Len(Candidates(site))}
                      ELSE {EmptyHref}
    /\ first_links = <<>>
    /\ page_i \in 1..MaxPageNum
    /\ all_items = <<>>
    /\ uniq = <<>>
    /\ details_text = NoDetails
    /\ detail_k = 0
    /\ rows_all = <<>>
    /\ rows_near = <<>>
    /\ rows_out = <<>>
    /\ files = NoFiles
    /\ stdout = <<>>
    /\ fetched = <<>>
    /\ probe_log = <<>>
    /\ usable = TRUE
    /\ fetch_rs = NoAnswers
    /\ fetch_ret = NotReturned

\* "url_i = chosen_url if i == 1 else add_pagination(chosen_url, i)", and
\* the fetch of it.
Paginate ==
    /\ pc = "paginate"
    /\ fetched' = Append(fetched, [phase |-> "list",
                                   url |-> PageUrl(site, chosen_url, page_i)])
    /\ pc' = "paginated"
    /\ UNCHANGED << knobs, cand, chosen_url, first_links, page_i, all_items, uniq,
                    details_text, detail_k, rows_all, rows_near, rows_out, files,
                    stdout, probe_log, usable, fetch_vars >>

SpecPaginate == InitPaginate /\ [][Paginate]_vars

\* ================================================================= claims
Min(a, b) == IF a < b THEN a ELSE b
Max(a, b) == IF a > b THEN a ELSE b

Range(seq) == {seq[i] : i \in 1..Len(seq)}

Phase(log, ph) == LET is(f) == f.phase = ph IN SelectSeq(log, is)

Written(name) == name \in DOMAIN files

\* run() returned after building its rows (not by the "no links" return).
Finished == pc = "done" /\ stdout = <<"OK">>

\* The title, body and hit counts of the one row SpecClassify builds.
TheTitle == rows_all[1].title
TheBody == BodyOf(uniq[1], details_text)
PrimaryHits == count_hits("DRONE_RE", TheTitle) + count_hits("DRONE_RE", TheBody)
BoosterHits == count_hits("ENERGY_RE", TheTitle) + count_hits("ENERGY_RE", TheBody)
GenericPresent == Search("GENERIC_RE", text_combo(TheTitle, TheBody))
DisqualifierPresent == Search("NEGATIVE_RE", text_combo(TheTitle, TheBody))

\* C1: with filtering enabled, if no row is Strict but the raw artifact is
\* not empty, the filtered artifact is the first min(20, |raw|) rows of the
\* (sorted) raw artifact; the filtered artifact is empty only when the raw
\* one is.
C1_FallbackFloor ==
    (Finished /\ ONLY_FILTERED) =>
        LET raw == files["raw"]
            filtered == files["links"]
        IN /\ ((\A i \in 1..Len(raw) : ~raw[i].include) /\ raw # <<>>)
                 => filtered = SubSeq(raw, 1, Min(20, Len(raw)))
           /\ (filtered = <<>> => raw = <<>>)

\* C2: the inclusion flag of a row is true exactly when the Primary pattern
\* hits its title or its body at least once, whatever the Disqualifier and
\* Booster hits and the score.
C2_StrictIffPrimary ==
    Finished => (rows_all[1].include <=> PrimaryHits > 0)

\* C2's case: a Strict row whose text also has a Disqualifier term.
C2_Witness ==
    Finished /\ rows_all[1].include /\ DisqualifierPresent /\ BoosterHits = 0

\* C3: in VIC a row is in the near-miss set exactly when it has no Primary
\* hit, a Booster hit, a generic-work term and no Disqualifier term in
\* title+body; no row is both Strict and near-miss.
C3_NearMissRule ==
    (Finished /\ site = "VIC") =>
        LET near == rows_near # <<>>
        IN /\ near <=> (PrimaryHits = 0 /\ BoosterHits > 0 /\ GenericPresent
                        /\ ~DisqualifierPresent)
           /\ ~(near /\ rows_all[1].include)
           /\ near => (Len(rows_near) = 1
                       /\ rows_near[1].source_url = rows_all[1].source_url)

\* C3's case: a VIC row in the near-miss set, and not Strict.
C3_Witness ==
    Finished /\ site = "VIC" /\ rows_near # <<>> /\ ~rows_all[1].include

\* C4: the locator fetches the candidates in their configured order, each at
\* most once; no candidate is fetched after one that gave detail links, and
\* the chosen endpoint is that first candidate with detail links.
C4_LocatorOrder ==
    HasLocator(site) =>
        LET probes == Phase(fetched, "probe")
            n == Len(probe_log)
        IN /\ Len(probes) = n
           /\ n <= Len(Candidates(site))
           /\ \A k \in 1..n : /\ probes[k].url = Candidates(site)[k]
                              /\ probe_log[k].url = Candidates(site)[k]
                              /\ fetched[k].phase = "probe"
           /\ \A k \in 1..(n - 1) : probe_log[k].n = 0
           /\ (n > 0 /\ probe_log[n].n > 0)
                => (chosen_url = Candidates(site)[n] /\ pc # "probe")
           /\ chosen_url # EmptyHref => (n > 0 /\ probe_log[n].n > 0)

\* C4's case: VIC chose a candidate of its second host, after every path
\* of the first host gave no detail link.
C4_Witness ==
    /\ site = "VIC"
    /\ Len(probe_log) > Len(VIC_LIST_URL_CANDIDATES)
    /\ chosen_url = Candidates("VIC")[Len(probe_log)]
    /\ chosen_url.host = VIC_BASES[2]

\* C5: when no candidate gives a detail link, raw and filtered artifacts are
\* written as empty arrays, nothing but the probes was ever fetched, and
\* run() returns normally.
C5_LayoutMismatch ==
    (HasLocator(site)
     /\ Len(probe_log) = Len(Candidates(site))
     /\ \A k \in 1..Len(probe_log) : probe_log[k].n = 0)
    => /\ pc \in {"no_links", "done"}
       /\ \A k \in 1..Len(fetched) : fetched[k].phase = "probe"
       /\ Len(fetched) = Len(Candidates(site))
       /\ pc = "done" => /\ Written("raw") /\ files["raw"] = <<>>
                         /\ Written("links") /\ files["links"] = <<>>
                         /\ stdout = <<"OK (no links)">>

\* C5's case: a QLD or VIC run that ended without any candidate giving links.
C5_Witness ==
    /\ HasLocator(site) /\ pc = "done" /\ chosen_url = EmptyHref
    /\ Len(probe_log) = Len(Candidates(site))
    /\ Written("raw") /\ Written("links")

\* C6 as stated: the first attempt verifies the certificate; a second
\* attempt, unverified, is made only after a transport-level failure and
\* never after an HTTP error status; never more than two attempts, and none
\* after a successful first one.
C6_RetryOnlyOnTransportFailure ==
    pc = "returned" =>
        LET a == fetch_ret.attempts
        IN /\ Len(a) \in 1..2
           /\ a[1].verify
           /\ Len(a) = 2 => (~a[2].verify /\ a[1].outcome = "exception")
           /\ a[1].outcome = "ok" => Len(a) = 1

\* C6 amended: the first attempt verifies the certificate; a second attempt,
\* unverified, is made exactly when the first did not return a success
\* response (it raised, or it answered with an HTTP error status); never
\* more than two attempts; the text returned is that of the first
\* successful attempt, or empty.
C6_RetryUnlessSuccess ==
    pc = "returned" =>
        LET a == fetch_ret.attempts
        IN /\ Len(a) \in 1..2
           /\ a[1].verify
           /\ Len(a) = 2 <=> a[1].outcome # "ok"
           /\ Len(a) = 2 => ~a[2].verify
           /\ \A k \in 1..Len(a) : a[k].outcome = fetch_rs[k].kind
           /\ fetch_ret.text = IF a[Len(a)].outcome = "ok"
                               THEN fetch_rs[Len(a)].text ELSE EmptyHtml
           /\ ~fetch_ret.raised

\* C6's case: an HTTP error status on the first attempt, and an unverified
\* second attempt that succeeds.
C6_Witness ==
    /\ pc = "returned"
    /\ Len(fetch_ret.attempts) = 2
    /\ fetch_ret.attempts[1].outcome = "http_error"
    /\ fetch_ret.attempts[2].outcome = "ok"
    /\ fetch_ret.text # EmptyHtml

\* A run that located a listing (NSW always has one).
Located == site = "NSW" \/ chosen_url # EmptyHref

\* How far run() is: the order of its phases, and the passes its current
\* loop still has to make.
PhaseOrder ==
    CASE pc = "probe" -> 1
      [] pc \in {"no_links", "list"} -> 2
      [] pc = "detail" -> 3
      [] pc = "rows" -> 4
      [] pc = "done" -> 5
      [] OTHER -> 0

PassesLeft ==
    CASE pc = "probe" -> Len(Candidates(site)) - cand + 1
      [] pc = "list" -> LastPage(PAGES) - page_i + 1
      [] pc = "detail" -> Len(Sample(uniq, DETAIL_LIMIT)) - detail_k
      [] OTHER -> 0

\* C7: whatever the fetches answer, run() never stops short of its end:
\* every step takes it to a later phase or leaves its loop fewer passes, a
\* loop that is not over has a pass to make, no step leaves run() by a
\* fault, and at the end the raw and filtered artifacts are written; when
\* it ends after locating a listing, every listing page and every sampled
\* detail page was fetched and every unique link has its row.
C7_Completion ==
    /\ [](PhaseOrder > 0)
    /\ [](pc \in {"probe", "list", "detail"} => PassesLeft > 0)
    /\ [][\/ PhaseOrder' > PhaseOrder
          \/ (PhaseOrder' = PhaseOrder /\ PassesLeft' < PassesLeft)]_vars
    /\ [](pc = "done" => (Written("raw") /\ Written("links")))
    /\ []((pc = "done" /\ Located) =>
            /\ Len(Phase(fetched, "list")) = LastPage(PAGES)
            /\ Len(Phase(fetched, "detail")) = Len(Sample(uniq, DETAIL_LIMIT))
            /\ Len(files["raw"]) = Len(uniq))

\* C7's case: a finished run with two rows, one of whose detail fetches
\* gave nothing.
C7_Witness ==
    /\ Finished /\ Written("raw") /\ Written("links")
    /\ Len(files["raw"]) = 2
    /\ \E h \in DOMAIN details_text :
          details_text[h] = [title |-> <<>>, body |-> <<>>]
    /\ \E h \in DOMAIN details_text : details_text[h].body # <<>>

\* C8: no two records of the raw artifact have the same canonical URL.
C8_CanonicalUnique ==
    Finished =>
        LET raw == files["raw"]
        IN \A i, j \in 1..Len(raw) :
              i # j => Canonical(site, raw[i].source_url)
                       # Canonical(site, raw[j].source_url)

\* Every order of a sequence.
Reorderings(seq) ==
    {[i \in 1..Len(seq) |-> seq[f[i]]] : f \in Permutations(1..Len(seq))}

CanonicalSet(items) == {Canonical(site, it.href) : it \in Range(items)}

\* C9: the canonical URLs of the unique list are those of the links
\* observed; deduplicating the links taken twice, or in any other order,
\* gives the same set; the unique list has one item per href, the first
\* seen.
C9_DedupIdempotent ==
    pc = "rows" =>
        /\ CanonicalSet(uniq) = CanonicalSet(all_items)
        /\ dedupe(all_items \o all_items) = uniq
        /\ dedupe(uniq) = uniq
        /\ \A r \in Reorderings(all_items) :
              CanonicalSet(dedupe(r)) = CanonicalSet(uniq)
        /\ \A i, j \in 1..Len(uniq) : uniq[i].href = uniq[j].href => i = j
        /\ \A k \in 1..Len(uniq) :
              \E i \in 1..Len(all_items) :
                 /\ all_items[i] = uniq[k]
                 /\ \A j \in 1..(i - 1) : all_items[j].href # uniq[k].href

\* C9's case: a link seen twice with two labels, the second one dropped.
C9_Witness ==
    /\ pc = "rows"
    /\ \E i, j \in 1..Len(all_items) :
          /\ i < j
          /\ all_items[i].href = all_items[j].href
          /\ all_items[i].text # all_items[j].text
          /\ all_items[i] \in Range(uniq)
          /\ all_items[j] \notin Range(uniq)

\* C10: never more than max(0, DETAIL_LIMIT) detail pages are fetched, and
\* the links with detail text are the first min(DETAIL_LIMIT, |uniq|) of the
\* unique list.
C10_DetailBound ==
    /\ Len(Phase(fetched, "detail")) <= Max(0, DETAIL_LIMIT)
    /\ pc \in {"rows", "done"} =>
          DOMAIN details_text =
             {uniq[k].href : k \in 1..Min(DETAIL_LIMIT, Len(uniq))}

\* The listing pages fetched so far by the pagination loop, in order.
ListFetches == Phase(fetched, "list")

\* The pagination loop is over.
ListingOver == Located /\ pc \in {"detail", "rows", "done"}

\* C11 as stated: the pagination loop fetches exactly PAGES listing pages.
C11_ExactlyPages ==
    ListingOver => Len(ListFetches) = PAGES

\* C11 amended: the pagination loop fetches listing pages 1, 2, ..., n in
\* that order, each once, where n is PAGES, or 1 when PAGES is below 1,
\* whatever the pages return; it never stops before page n nor goes past it.
C11_ExactlyPagesAtLeastOne ==
    LET n == Max(1, PAGES)
    IN /\ Len(ListFetches) <= n
       /\ \A i \in 1..Len(ListFetches) :
             ListFetches[i].url = PageUrl(site, chosen_url, i)
       /\ \A i, j \in 1..Len(ListFetches) :
             ListFetches[i].url = ListFetches[j].url => i = j
       /\ pc = "list" => Len(ListFetches) = page_i - 1
       /\ ListingOver => Len(ListFetches) = n

\* C11's case: every listing page of an NSW run came back without a link,
\* and the loop still fetched all its pages.
C11_Witness ==
    /\ Finished /\ site = "NSW" /\ PAGES = MaxPages
    /\ all_items = <<>>
    /\ Len(ListFetches) = MaxPages

\* The four hit counts of a title and a body.
HitCounts(title, body) ==
    [drone_title |-> count_hits("DRONE_RE", title),
     drone_body |-> count_hits("DRONE_RE", body),
     energy_title |-> count_hits("ENERGY_RE", title),
     energy_body |-> count_hits("ENERGY_RE", body)]

\* The last word of a text is `w`.
EndsWith(t, w) == t # <<>> /\ Lower(t[Len(t)]) = w

\* C12: the score of a row is 3 * Primary title hits + 2 * Primary body
\* hits + 2 * Booster title hits + 1 * Booster body hits, a natural number;
\* one more Primary occurrence in the title, the other counts unchanged,
\* adds exactly 3; one more Disqualifier or generic-work term, the four
\* counts unchanged, leaves the score as it is.
C12_ScoreFormula ==
    Finished =>
        LET r == rows_all[1]
            h == HitCounts(TheTitle, TheBody)
            more == TheTitle \o <<"drone">>
        IN /\ r.hits = h
           /\ r.score = 3 * h.drone_title + 2 * h.drone_body
                        + 2 * h.energy_title + 1 * h.energy_body
           /\ r.score \in Nat
           /\ HitCounts(more, TheBody) = [h EXCEPT !.drone_title = @ + 1]
           /\ score_from(more, TheBody).score = r.score + 3
           /\ score_from(TheTitle \o <<"strategy">>, TheBody).score = r.score
           /\ score_from(TheTitle, TheBody \o <<"strategy">>).score = r.score
           /\ ~EndsWith(TheTitle, "aerial")
                => score_from(TheTitle \o <<"survey">>, TheBody).score = r.score
           /\ ~EndsWith(TheBody, "aerial")
                => score_from(TheTitle, TheBody \o <<"survey">>).score = r.score

\* C12's case: a row with one hit of each kind, and a Disqualifier-free
\* score of 3 + 2 + 2 + 1.
C12_Witness ==
    /\ Finished
    /\ rows_all[1].hits = [drone_title |-> 1, drone_body |-> 1,
                           energy_title |-> 1, energy_body |-> 1]
    /\ rows_all[1].score = 8

\* Records in non-increasing order of score; two adjacent records of equal
\* score are in ascending order of their lower-cased titles.
Ranked(recs) ==
    \A i \in 1..(Len(recs) - 1) :
        /\ recs[i].score >= recs[i + 1].score
        /\ recs[i].score = recs[i + 1].score
             => ~StrLess(LowerText(recs[i + 1].title), LowerText(recs[i].title))

\* a is b with some of its records left out, the others in b's order.
RECURSIVE IsSubSeq(_, _)
IsSubSeq(a, b) ==
    IF a = <<>> THEN TRUE
    ELSE IF b = <<>> THEN FALSE
    ELSE IF Head(a) = Head(b) THEN IsSubSeq(Tail(a), Tail(b))
    ELSE IsSubSeq(a, Tail(b))

\* C13: every artifact written (raw, filtered, VIC's near-miss) is ranked by
\* non-increasing score, ties by ascending case-insensitive title, and the
\* filtered artifact keeps the raw artifact's order.
C13_RankingOrder ==
    Finished =>
        /\ \A name \in DOMAIN files : Ranked(files[name])
        /\ IsSubSeq(files["links"], files["raw"])
        /\ Len(files["raw"]) = Len(uniq)

\* C13's case: two records of equal score next to each other in the raw
\* artifact, ordered by title against the order of the titles as written
\* ("strategy" before "Untitled").
C13_Witness ==
    /\ Finished
    /\ \E i \in 1..(Len(files["raw"]) - 1) :
          /\ files["raw"][i].score = files["raw"][i + 1].score
          /\ files["raw"][i].title = <<"strategy">>
          /\ files["raw"][i + 1].title = <<"Untitled">>

\* The exit status of the process: "run()" under __main__ returns and the
\* interpreter exits with 0, or an exception leaves it and it exits with 1.
ExitStatus ==
    CASE pc = "done" -> 0
      [] pc = "crashed" -> 1
      [] OTHER -> -1

\* C14: a run that ends without one usable response ends with a failure
\* status, and a run that ends after a usable response, its artifacts
\* written, ends with success.
C14_ExitStatus ==
    ExitStatus >= 0 =>
        /\ ~usable => ExitStatus # 0
        /\ (usable /\ Written("raw") /\ Written("links")) => ExitStatus = 0

\* The endpoint whose page URL SpecPaginate builds, and that page URL.
Endpoint == IF site = "NSW" THEN NSW_LIST_URL ELSE chosen_url
ThePageUrl == fetched[1].url

\* The values a query has for a key, in order, and its pairs of other keys.
ValuesOf(query, key) ==
    LET mine(p) == p[1] = key
        second(p) == p[2]
    IN [k \in 1..Len(SelectSeq(query, mine)) |-> second(SelectSeq(query, mine)[k])]

OtherPairs(query, key) == LET other(p) == p[1] # key IN SelectSeq(query, other)

\* C15: the URL of page 1 is the endpoint itself; the URL of a page n > 1
\* has the endpoint's scheme, host and path, has the site's pagination
\* parameter exactly once, with value n, and every other parameter of the
\* endpoint with its values; paginating a page URL again (QLD, VIC)
\* replaces the value it had.
C15_Paginator ==
    pc = "paginated" =>
        LET e == Endpoint
            u == ThePageUrl
            param == PageParam(site)
            n == page_i
        IN /\ n = 1 => u = e
           /\ n > 1 =>
                /\ u.host = e.host
                /\ u.path = e.path
                /\ u.frag = e.frag
                /\ ValuesOf(u.query, param) = <<ToString(n)>>
                /\ OtherPairs(u.query, param) = OtherPairs(e.query, param)
                /\ HasLocator(site) =>
                     \A m \in 2..MaxPageNum :
                        LET again == add_pagination(site, u, m)
                        IN /\ ValuesOf(again.query, param) = <<ToString(m)>>
                           /\ OtherPairs(again.query, param)
                                = OtherPairs(e.query, param)

\* C15's case: page 2 or later of the VIC endpoint with five parameters.
C15_Witness ==
    /\ pc = "paginated" /\ site = "VIC" /\ page_i > 1
    /\ Len(Endpoint.query) > 1
    /\ Len(ThePageUrl.query) = Len(Endpoint.query) + 1

\* The number of detail links the locator found on the endpoint it chose.
ProbeFound == IF probe_log = <<>> THEN 0 ELSE probe_log[Len(probe_log)].n

\* C16: in QLD and VIC, the detail links found on the chosen endpoint while
\* probing are in the raw artifact: after a successful locate the raw
\* artifact has a record, and in QLD, where the state keeps the probe's
\* links, every one of them has its record, whatever the listing loop's
\* own fetches return.
C16_ProbeLinksKept ==
    (Finished /\ HasLocator(site) /\ ProbeFound > 0) =>
        /\ files["raw"] # <<>>
        /\ site = "QLD" =>
             \A k \in 1..ProbeFound :
                \E r \in 1..Len(files["raw"]) :
                   Canonical(site, files["raw"][r].source_url)
                     = Canonical(site, all_items[k].href)

====
